---- MODULE Spec2Model ----
(***************************************************************************)
(* TolKI: the usage ledger (convex/usageSessions.ts), the usage-tracking   *)
(* hook useTrackUsage that drives it from the client, and the microphone   *)
(* level monitor (components/AudioVisualizer.tsx).                         *)
(*                                                                         *)
(* Three specifications share the module:                                  *)
(*   SpecLedger  the ledger mutations called directly with any arguments   *)
(*   SpecHook    one hook instance calling the ledger                      *)
(*   SpecViz     one AudioVisualizer component                             *)
(* Each leaves the variables of the other parts unchanged.                 *)
(***************************************************************************)
EXTENDS Integers, Sequences, FiniteSets, TLC

\* ---------------------------------------------------------------- bounds
MaxCredits == 2
MaxSessions == 2
MaxNow == 2
MaxPending == 2
MaxEndCalls == 2
MaxRecs == 2
MaxVizPending == 3
MaxTriggers == 8
MaxFrags == 3

\* ------------------------------------------------------------- constants
Users == {"u1", "u2"}
ClerkIds == Users \cup {"ghost"}
NoUser == "none"
Null == 0
\* const SPEECH_THRESHOLD = -40 (dB)
SPEECH_THRESHOLD == -40
\* metering values a status can carry; Undefined stands for `undefined`
Levels == {-60, -40, -20}
Undefined == 1

VARIABLES
  \* ledger (convex tables users, usageSessions; Date.now())
  credits, sessions, now, lastResult,
  \* hook useTrackUsage
  clerkUser, mounted, sessionId, isTracking, sessionCreditsUsed,
  intervalRef, timers, pending, endCalls, thrown,
  \* component AudioVisualizer
  isActive, vizPhase, recording, vizIntervalRef, recs, vizTimers, cleanup,
  vizPending, tick, vizLog, vizSettled, vizRaised,
  \* hook useTrackUsage, version charging fractions of a credit
  sessionSecondsUsed, ledgerFigures,
  \* session state machine and reconnection controller
  fsmState, fsmReason, lastTrigger, attempts, lastDelay, online, configSent,
  acked, fsmCredits, triggersLeft,
  \* audio playback pipeline
  buffer, markerSeen, respOrder, playing, played, finished, cancelled,
  bargedIn, reordered, fate

ledgerVars == <<credits, sessions, now, lastResult>>
hookVars == <<clerkUser, mounted, sessionId, isTracking, sessionCreditsUsed,
              intervalRef, timers, pending, endCalls, thrown>>
vizVars == <<isActive, vizPhase, recording, vizIntervalRef, recs, vizTimers,
             cleanup, vizPending, tick, vizLog, vizSettled, vizRaised>>
fracVars == <<sessionSecondsUsed, ledgerFigures>>
fsmVars == <<fsmState, fsmReason, lastTrigger, attempts, lastDelay, online,
             configSent, acked, fsmCredits, triggersLeft>>
pbVars == <<buffer, markerSeen, respOrder, playing, played, finished,
            cancelled, bargedIn, reordered, fate>>
restVars == <<fracVars, fsmVars, pbVars>>

\* two response identifiers, in the order in which the remote produces them;
\* the tags of the fragments of a response
Responses == {1, 2}
Frags == 1..MaxFrags

\* ================================================================ ledger
\* A mutation is a transaction: it returns its result together with the
\* tables it leaves behind.  A handler that throws commits none of its
\* writes (the mutation is aborted), so a failure carries the tables it
\* was given.
Result(ok, error, sid, remaining, used, cr, ss) ==
  [ok |-> ok, error |-> error, sid |-> sid, creditsRemaining |-> remaining,
   sessionCreditsUsed |-> used, credits |-> cr, sessions |-> ss]

Fail(error, cr, ss) == Result(FALSE, error, Null, 0, 0, cr, ss)

\* ctx.db.query("users").withIndex("by_clerk_id", ...).first()
FindUser(clerkId) == IF clerkId \in Users THEN clerkId ELSE NoUser

\* ctx.db.query("usageSessions").withIndex("by_active", userId, isActive = true)
ActiveIds(ss, u) == {i \in 1..Len(ss) : ss[i].userId = u /\ ss[i].isActive}

\* .first() of the by_active query: the oldest matching document
FirstActive(ss, u) ==
  IF ActiveIds(ss, u) = {} THEN Null
  ELSE CHOOSE i \in ActiveIds(ss, u) : \A j \in ActiveIds(ss, u) : i <= j

\* for (const session of activeSessions) patch {isActive: false, endedAt}
EndAll(ss, ids, t) ==
  [i \in 1..Len(ss) |->
     IF i \in ids THEN [ss[i] EXCEPT !.isActive = FALSE, !.endedAt = t]
     ELSE ss[i]]

\* mutant: the new session is inserted without ending the active ones
startSession_KeepActive(cr, ss, t, clerkId) ==
  LET u == FindUser(clerkId) IN
  IF u = NoUser THEN Fail("User not found", cr, ss)
  ELSE IF cr[u] <= 0 THEN Fail("Insufficient credits", cr, ss)
  ELSE Result(TRUE, "", Len(ss) + 1, 0, 0, cr,
              Append(ss, [userId |-> u, creditsUsed |-> 0, startedAt |-> t,
                          isActive |-> TRUE, endedAt |-> Null]))

\* mutant: only a negative balance is refused
startSession_AllowsZero(cr, ss, t, clerkId) ==
  LET u == FindUser(clerkId) IN
  IF u = NoUser THEN Fail("User not found", cr, ss)
  ELSE IF cr[u] < 0 THEN Fail("Insufficient credits", cr, ss)
  ELSE Result(TRUE, "", Len(ss) + 1, 0, 0, cr,
              Append(EndAll(ss, ActiveIds(ss, u), t),
                     [userId |-> u, creditsUsed |-> 0, startedAt |-> t,
                      isActive |-> TRUE, endedAt |-> Null]))

startSession(cr, ss, t, clerkId) ==
  LET u == FindUser(clerkId) IN
  IF u = NoUser THEN Fail("User not found", cr, ss)
  ELSE IF cr[u] <= 0 THEN Fail("Insufficient credits", cr, ss)
  ELSE Result(TRUE, "", Len(ss) + 1, 0, 0, cr,
              Append(EndAll(ss, ActiveIds(ss, u), t),
                     [userId |-> u, creditsUsed |-> 0, startedAt |-> t,
                      isActive |-> TRUE, endedAt |-> Null]))

\* mutant: a session is patched whether or not it is active
endSession_NoCheck(cr, ss, t, sid) ==
  IF sid \notin 1..Len(ss) THEN Fail("Session not found", cr, ss)
  ELSE Result(TRUE, "", sid, 0, ss[sid].creditsUsed, cr,
              EndAll(ss, {sid}, t))

\* sid ranges over ids of the table and ids that name no document
endSession(cr, ss, t, sid) ==
  IF sid \notin 1..Len(ss) THEN Fail("Session not found", cr, ss)
  ELSE IF ~ss[sid].isActive THEN Result(TRUE, "", Null, 0, 0, cr, ss)
  ELSE Result(TRUE, "", sid, 0, ss[sid].creditsUsed, cr,
              EndAll(ss, {sid}, t))

\* mutant: the credit is deducted from the user but not added to the session
incrementSessionCredits_NoAttribution(cr, ss, t, clerkId) ==
  LET u == FindUser(clerkId)
      a == FirstActive(ss, u)
  IN
  IF u = NoUser THEN Fail("User not found", cr, ss)
  ELSE IF a = Null THEN Fail("No active session found", cr, ss)
  ELSE IF cr[u] <= 0 THEN Fail("Insufficient credits - session ended", cr, ss)
  ELSE Result(TRUE, "", a, cr[u] - 1, ss[a].creditsUsed + 1,
              [cr EXCEPT ![u] = cr[u] - 1], ss)

\* mutant: the balance read before the deduction is returned
incrementSessionCredits_StaleBalance(cr, ss, t, clerkId) ==
  LET u == FindUser(clerkId)
      a == FirstActive(ss, u)
  IN
  IF u = NoUser THEN Fail("User not found", cr, ss)
  ELSE IF a = Null THEN Fail("No active session found", cr, ss)
  ELSE IF cr[u] <= 0 THEN Fail("Insufficient credits - session ended", cr, ss)
  ELSE Result(TRUE, "", a, cr[u], ss[a].creditsUsed + 1,
              [cr EXCEPT ![u] = cr[u] - 1],
              [ss EXCEPT ![a].creditsUsed = ss[a].creditsUsed + 1])

\* mutant: the balance is not checked before the deduction
incrementSessionCredits_NoBalanceCheck(cr, ss, t, clerkId) ==
  LET u == FindUser(clerkId)
      a == FirstActive(ss, u)
  IN
  IF u = NoUser THEN Fail("User not found", cr, ss)
  ELSE IF a = Null THEN Fail("No active session found", cr, ss)
  ELSE Result(TRUE, "", a, cr[u] - 1, ss[a].creditsUsed + 1,
              [cr EXCEPT ![u] = cr[u] - 1],
              [ss EXCEPT ![a].creditsUsed = ss[a].creditsUsed + 1])

\* mutant: without an active session the credit is deducted all the same
incrementSessionCredits_NoSessionCheck(cr, ss, t, clerkId) ==
  LET u == FindUser(clerkId)
      a == FirstActive(ss, u)
  IN
  IF u = NoUser THEN Fail("User not found", cr, ss)
  ELSE IF cr[u] <= 0 THEN Fail("Insufficient credits - session ended", cr, ss)
  ELSE IF a = Null
  THEN Result(TRUE, "", Null, cr[u] - 1, 0, [cr EXCEPT ![u] = cr[u] - 1], ss)
  ELSE Result(TRUE, "", a, cr[u] - 1, ss[a].creditsUsed + 1,
              [cr EXCEPT ![u] = cr[u] - 1],
              [ss EXCEPT ![a].creditsUsed = ss[a].creditsUsed + 1])

\* mutant: the session charged is the user's oldest, active or not
incrementSessionCredits_AnySession(cr, ss, t, clerkId) ==
  LET u == FindUser(clerkId)
      own == {i \in 1..Len(ss) : ss[i].userId = u}
      a == IF own = {} THEN Null
           ELSE CHOOSE i \in own : \A j \in own : i <= j
  IN
  IF u = NoUser THEN Fail("User not found", cr, ss)
  ELSE IF a = Null THEN Fail("No active session found", cr, ss)
  ELSE IF cr[u] <= 0 THEN Fail("Insufficient credits - session ended", cr, ss)
  ELSE Result(TRUE, "", a, cr[u] - 1, ss[a].creditsUsed + 1,
              [cr EXCEPT ![u] = cr[u] - 1],
              [ss EXCEPT ![a].creditsUsed = ss[a].creditsUsed + 1])

incrementSessionCredits(cr, ss, t, clerkId) ==
  LET u == FindUser(clerkId)
      a == FirstActive(ss, u)
  IN
  IF u = NoUser THEN Fail("User not found", cr, ss)
  ELSE IF a = Null THEN Fail("No active session found", cr, ss)
  ELSE IF cr[u] <= 0 THEN Fail("Insufficient credits - session ended", cr, ss)
  ELSE Result(TRUE, "", a, cr[u] - 1, ss[a].creditsUsed + 1,
              [cr EXCEPT ![u] = cr[u] - 1],
              [ss EXCEPT ![a].creditsUsed = ss[a].creditsUsed + 1])

\* Date.now() does not go back; the clock of the model stops at MaxNow
Advance(t) == IF t < MaxNow THEN t + 1 ELSE t

\* the ledger after a mutation returned r
Commit(r) ==
  /\ credits' = r.credits
  /\ sessions' = r.sessions
  /\ now' = Advance(now)
  /\ lastResult' = [ok |-> r.ok, error |-> r.error, sid |-> r.sid,
                    creditsRemaining |-> r.creditsRemaining,
                    sessionCreditsUsed |-> r.sessionCreditsUsed]

NoResult == [ok |-> TRUE, error |-> "", sid |-> Null, creditsRemaining |-> 0,
             sessionCreditsUsed |-> 0]

\* the usage figures the ledger has handed to the hook, before any
NoFigures == [creditsUsed |-> 0, secondsUsed |-> 0]

\* the poll tick record before any tick
NoTick == [threw |-> FALSE, isRecording |-> FALSE, metering |-> Undefined,
           calls |-> 0, level |-> Undefined, isSpeaking |-> FALSE]

\* the ledger before any session, with any balances; the hook as constructed
InitLedger ==
  /\ credits \in [Users -> 0..MaxCredits]
  /\ sessions = <<>>
  /\ now = 1
  /\ lastResult = NoResult
  /\ clerkUser = "u1"
  /\ mounted = TRUE
  /\ sessionId = Null
  /\ isTracking = FALSE
  /\ sessionCreditsUsed = 0
  /\ intervalRef = Null
  /\ timers = <<>>
  /\ pending = <<>>
  /\ endCalls = [i \in 1..MaxSessions + 1 |-> 0]
  /\ thrown = ""
  /\ isActive = FALSE
  /\ vizPhase = "init"
  /\ recording = Null
  /\ vizIntervalRef = Null
  /\ recs = <<>>
  /\ vizTimers = <<>>
  /\ cleanup = Null
  /\ vizPending = <<>>
  /\ tick = NoTick
  /\ vizLog = ""
  /\ vizSettled = "none"
  /\ vizRaised = FALSE
  /\ sessionSecondsUsed = 0
  /\ ledgerFigures = NoFigures
  /\ fsmState = "Idle"
  /\ fsmReason = ""
  /\ lastTrigger = ""
  /\ attempts = 0
  /\ lastDelay = 0
  /\ online = TRUE
  /\ configSent = FALSE
  /\ acked = FALSE
  /\ fsmCredits = 0
  /\ triggersLeft = 0
  /\ buffer = [r \in Responses |-> <<>>]
  /\ markerSeen = [r \in Responses |-> FALSE]
  /\ respOrder = <<>>
  /\ playing = {}
  /\ played = [r \in Responses |-> <<>>]
  /\ finished = {}
  /\ cancelled = {}
  /\ bargedIn = {}
  /\ reordered = [r \in Responses |-> FALSE]
  /\ fate = [r \in Responses |-> [k \in Frags |-> "none"]]

\* ------------------------------------------------- ledger called directly
CallStartSession(c) ==
  /\ Len(sessions) < MaxSessions
  /\ Commit(startSession(credits, sessions, now, c))
  /\ UNCHANGED <<hookVars, vizVars, restVars>>

CallEndSession(sid) ==
  /\ Commit(endSession(credits, sessions, now, sid))
  /\ UNCHANGED <<hookVars, vizVars, restVars>>

CallIncrement(c) ==
  /\ Commit(incrementSessionCredits(credits, sessions, now, c))
  /\ UNCHANGED <<hookVars, vizVars, restVars>>

NextLedger ==
  \/ \E c \in ClerkIds : CallStartSession(c)
  \/ \E sid \in 1..MaxSessions + 1 : CallEndSession(sid)
  \/ \E c \in ClerkIds : CallIncrement(c)

\* ================================================== hook useTrackUsage
\* The hook as it calls incrementSessionCredits every 60 s.  Its other
\* version (updateFractionalCredits every 3 s) has the same startTracking,
\* stopTracking, timer and closure structure.
\* A call that awaits a mutation is split at the await: the mutation runs on
\* the ledger when it is sent, and its continuation waits in `pending`
\* (mutations of one client complete in the order they were sent).
\* A function closes over the state of the render that created it: `cap` is
\* the sessionId that the stopTracking reachable from the caller sees.
Entry(kind, r, timer, cap) ==
  [kind |-> kind, ok |-> r.ok, error |-> r.error, sid |-> r.sid,
   creditsRemaining |-> r.creditsRemaining,
   sessionCreditsUsed |-> r.sessionCreditsUsed, timer |-> timer, cap |-> cap]

\* clearInterval(id): the timer with that id fires no more
ClearInterval(ts, id) ==
  [i \in 1..Len(ts) |-> IF i = id THEN [ts[i] EXCEPT !.live = FALSE] ELSE ts[i]]

Bump(calls, sid) ==
  [calls EXCEPT ![sid] = IF calls[sid] < MaxEndCalls THEN calls[sid] + 1
                         ELSE calls[sid]]

\* if (result.creditsRemaining === 0)
QuotaReached(creditsRemaining) == creditsRemaining = 0

\* stopTracking up to its await (or to its end when it does not await):
\* cap is the sessionId of its closure, used the sessionCreditsUsed and q the
\* waiting continuations at the call.
stopTracking(cap, used, q) ==
  /\ intervalRef' = Null
  /\ timers' = ClearInterval(timers, intervalRef)
  /\ IF cap # Null
     THEN LET r == endSession(credits, sessions, now, cap) IN
          /\ Commit(r)
          /\ endCalls' = Bump(endCalls, cap)
          /\ pending' = Append(q, Entry("stop", r, Null, cap))
          /\ sessionCreditsUsed' = used
          /\ UNCHANGED <<isTracking, sessionId>>
     ELSE /\ isTracking' = FALSE
          /\ sessionId' = Null
          /\ sessionCreditsUsed' = 0
          /\ pending' = q
          /\ UNCHANGED <<ledgerVars, endCalls>>

\* mutant: startSession is called without looking at clerkUser
StartTracking_NoAuthCheck ==
  /\ UNCHANGED <<vizVars, restVars>>
  /\ mounted
  /\ Len(pending) < MaxPending
  /\ LET r == startSession(credits, sessions, now, clerkUser) IN
     /\ r.ok => Len(sessions) < MaxSessions
     /\ Commit(r)
     /\ pending' = Append(pending, Entry("start", r, Null, sessionId))
  /\ UNCHANGED <<clerkUser, mounted, sessionId, isTracking, sessionCreditsUsed,
                 intervalRef, timers, endCalls, thrown>>

\* startTracking up to `await startSession(...)`
StartTracking ==
  /\ UNCHANGED <<vizVars, restVars>>
  /\ mounted
  /\ Len(pending) < MaxPending
  /\ IF clerkUser = NoUser
     THEN /\ thrown' = "User not authenticated"
          /\ UNCHANGED <<ledgerVars, pending>>
     ELSE /\ LET r == startSession(credits, sessions, now, clerkUser) IN
             /\ r.ok => Len(sessions) < MaxSessions
             /\ Commit(r)
             /\ pending' = Append(pending, Entry("start", r, Null, sessionId))
          /\ UNCHANGED thrown
  /\ UNCHANGED <<clerkUser, mounted, sessionId, isTracking, sessionCreditsUsed,
                 intervalRef, timers, endCalls>>

\* mutant: a rejected startSession resets the hook before it is rethrown
ResumeStart_ResetOnFailure ==
  /\ UNCHANGED <<vizVars, restVars>>
  /\ pending # <<>>
  /\ Head(pending).kind = "start"
  /\ LET e == Head(pending) IN
     IF e.ok
     THEN /\ sessionId' = e.sid
          /\ isTracking' = TRUE
          /\ sessionCreditsUsed' = 0
          /\ timers' = Append(timers, [live |-> TRUE, sid |-> e.sid, cap |-> e.cap])
          /\ intervalRef' = Len(timers) + 1
          /\ thrown' = ""
     ELSE /\ thrown' = e.error
          /\ sessionId' = Null
          /\ isTracking' = FALSE
          /\ UNCHANGED <<sessionCreditsUsed, timers, intervalRef>>
  /\ pending' = Tail(pending)
  /\ UNCHANGED <<ledgerVars, clerkUser, mounted, endCalls>>

\* startTracking after the await: the state is set and the interval created,
\* or the error is logged and rethrown
ResumeStart ==
  /\ UNCHANGED <<vizVars, restVars>>
  /\ pending # <<>>
  /\ Head(pending).kind = "start"
  /\ LET e == Head(pending) IN
     IF e.ok
     THEN /\ sessionId' = e.sid
          /\ isTracking' = TRUE
          /\ sessionCreditsUsed' = 0
          /\ timers' = Append(timers, [live |-> TRUE, sid |-> e.sid, cap |-> e.cap])
          /\ intervalRef' = Len(timers) + 1
          /\ thrown' = ""
     ELSE /\ thrown' = e.error
          /\ UNCHANGED <<sessionId, isTracking, sessionCreditsUsed, timers, intervalRef>>
  /\ pending' = Tail(pending)
  /\ UNCHANGED <<ledgerVars, clerkUser, mounted, endCalls>>

\* the interval callback up to `await incrementCredits({clerkId})`
TimerFire(t) ==
  /\ UNCHANGED <<vizVars, restVars>>
  /\ t \in 1..Len(timers)
  /\ timers[t].live
  /\ Len(pending) < MaxPending
  /\ LET r == incrementSessionCredits(credits, sessions, now, clerkUser) IN
     /\ Commit(r)
     /\ pending' = Append(pending, Entry("heartbeat", r, t, timers[t].cap))
  /\ UNCHANGED <<clerkUser, mounted, sessionId, isTracking, sessionCreditsUsed,
                 intervalRef, timers, endCalls, thrown>>

\* the interval callback after the await
ResumeHeartbeat ==
  /\ UNCHANGED <<vizVars, restVars>>
  /\ pending # <<>>
  /\ Head(pending).kind = "heartbeat"
  /\ LET e == Head(pending) IN
     IF e.ok /\ ~QuotaReached(e.creditsRemaining)
     THEN /\ sessionCreditsUsed' = e.sessionCreditsUsed
          /\ pending' = Tail(pending)
          /\ UNCHANGED <<ledgerVars, sessionId, isTracking, intervalRef, timers, endCalls>>
     ELSE stopTracking(e.cap,
                       IF e.ok THEN e.sessionCreditsUsed ELSE sessionCreditsUsed,
                       Tail(pending))
  /\ UNCHANGED <<clerkUser, mounted, thrown>>

\* stopTracking called by the user of the hook, from the current render
StopTracking ==
  /\ UNCHANGED <<vizVars, restVars>>
  /\ mounted
  /\ Len(pending) < MaxPending
  /\ stopTracking(sessionId, sessionCreditsUsed, pending)
  /\ UNCHANGED <<clerkUser, mounted, thrown>>

\* stopTracking after `await endSession({sessionId})`
ResumeStop ==
  /\ UNCHANGED <<vizVars, restVars>>
  /\ pending # <<>>
  /\ Head(pending).kind = "stop"
  /\ isTracking' = FALSE
  /\ sessionId' = Null
  /\ sessionCreditsUsed' = 0
  /\ pending' = Tail(pending)
  /\ UNCHANGED <<ledgerVars, clerkUser, mounted, intervalRef, timers, endCalls, thrown>>

\* the cleanup of the mount effect: clearInterval(intervalRef.current)
Unmount ==
  /\ UNCHANGED <<vizVars, restVars>>
  /\ mounted
  /\ mounted' = FALSE
  /\ timers' = ClearInterval(timers, intervalRef)
  /\ UNCHANGED <<ledgerVars, clerkUser, sessionId, isTracking, sessionCreditsUsed,
                 intervalRef, pending, endCalls, thrown>>

InitHook ==
  /\ credits \in [Users -> 0..MaxCredits]
  /\ sessions = <<>>
  /\ now = 1
  /\ lastResult = NoResult
  /\ clerkUser \in {"u1", NoUser}
  /\ mounted = TRUE
  /\ sessionId = Null
  /\ isTracking = FALSE
  /\ sessionCreditsUsed = 0
  /\ intervalRef = Null
  /\ timers = <<>>
  /\ pending = <<>>
  /\ endCalls = [i \in 1..MaxSessions + 1 |-> 0]
  /\ thrown = ""
  /\ isActive = FALSE
  /\ vizPhase = "init"
  /\ recording = Null
  /\ vizIntervalRef = Null
  /\ recs = <<>>
  /\ vizTimers = <<>>
  /\ cleanup = Null
  /\ vizPending = <<>>
  /\ tick = NoTick
  /\ vizLog = ""
  /\ vizSettled = "none"
  /\ vizRaised = FALSE
  /\ sessionSecondsUsed = 0
  /\ ledgerFigures = NoFigures
  /\ fsmState = "Idle"
  /\ fsmReason = ""
  /\ lastTrigger = ""
  /\ attempts = 0
  /\ lastDelay = 0
  /\ online = TRUE
  /\ configSent = FALSE
  /\ acked = FALSE
  /\ fsmCredits = 0
  /\ triggersLeft = 0
  /\ buffer = [r \in Responses |-> <<>>]
  /\ markerSeen = [r \in Responses |-> FALSE]
  /\ respOrder = <<>>
  /\ playing = {}
  /\ played = [r \in Responses |-> <<>>]
  /\ finished = {}
  /\ cancelled = {}
  /\ bargedIn = {}
  /\ reordered = [r \in Responses |-> FALSE]
  /\ fate = [r \in Responses |-> [k \in Frags |-> "none"]]

NextHook ==
  \/ StartTracking
  \/ ResumeStart
  \/ \E t \in 1..MaxSessions : TimerFire(t)
  \/ ResumeHeartbeat
  \/ StopTracking
  \/ ResumeStop
  \/ Unmount

\* ============================================ component AudioVisualizer
\* recs holds the Audio.Recording objects created so far, by status:
\* "created" (new), "prepared", "recording", "unloaded".  A function of the
\* component closes over the `recording` state of the render that created
\* it: `cleanup` is the one the cleanup of the last effect run sees.
\* Native calls complete in any order; their continuations wait in vizPending.
HoldsMicrophone(status) == status \in {"prepared", "recording"}

VizEntry(kind, rec) == [kind |-> kind, rec |-> rec]

RemoveAt(q, i) == SubSeq(q, 1, i - 1) \o SubSeq(q, i + 1, Len(q))

\* stopMonitoring up to `await recording.stopAndUnloadAsync()`: cap is the
\* recording of its closure, q the waiting continuations
stopMonitoring(cap, q) ==
  IF cap # Null THEN Append(q, VizEntry("unload", cap)) ELSE q

\* startMonitoring up to `await Audio.requestPermissionsAsync()`
startMonitoring(q) == Append(q, VizEntry("perm", Null))

\* mutant: the result of stopAndUnloadAsync is not guarded by try/catch
stopMonitoringAfterUnload_NoCatch(status, held) ==
  IF HoldsMicrophone(status)
  THEN [status |-> "unloaded", recording |-> Null, raised |-> FALSE, log |-> ""]
  ELSE [status |-> status, recording |-> held, raised |-> TRUE, log |-> ""]

\* stopMonitoring after the await: stopAndUnloadAsync unloads a recording
\* that holds the microphone and rejects for any other; status is the status
\* of the recording, held the `recording` state
stopMonitoringAfterUnload(status, held) ==
  IF HoldsMicrophone(status)
  THEN [status |-> "unloaded", recording |-> Null, raised |-> FALSE, log |-> ""]
  ELSE [status |-> status, recording |-> held, raised |-> FALSE,
        log |-> "Error stopping recording"]

\* animateDots: const isSpeaking = level > SPEECH_THRESHOLD
animateDots(level) == level > SPEECH_THRESHOLD

\* mutant: the level is reported only when speech is detected
pollStatus_Gated(threw, isRec, metering) ==
  IF ~threw /\ isRec /\ metering # Undefined /\ animateDots(metering)
  THEN [threw |-> threw, isRecording |-> isRec, metering |-> metering,
        calls |-> 1, level |-> metering, isSpeaking |-> animateDots(metering)]
  ELSE [threw |-> threw, isRecording |-> isRec, metering |-> metering,
        calls |-> 0, level |-> Undefined, isSpeaking |-> FALSE]

\* the body of the polling interval for one status read: calls counts the
\* invocations of onAudioLevel, level is its argument
pollStatus(threw, isRec, metering) ==
  IF ~threw /\ isRec /\ metering # Undefined
  THEN [threw |-> threw, isRecording |-> isRec, metering |-> metering,
        calls |-> 1, level |-> metering, isSpeaking |-> animateDots(metering)]
  ELSE [threw |-> threw, isRecording |-> isRec, metering |-> metering,
        calls |-> 0, level |-> Undefined, isSpeaking |-> FALSE]

\* first render: the effect runs with the initial isActive
VizMount(b) ==
  /\ vizPhase = "init"
  /\ vizPhase' = "mounted"
  /\ isActive' = b
  /\ vizPending' = IF b THEN startMonitoring(vizPending)
                   ELSE stopMonitoring(recording, vizPending)
  /\ vizIntervalRef' = IF b THEN vizIntervalRef ELSE Null
  /\ vizTimers' = IF b THEN vizTimers ELSE ClearInterval(vizTimers, vizIntervalRef)
  /\ cleanup' = recording
  /\ UNCHANGED <<recording, recs, tick, vizLog, vizSettled, vizRaised>>
  /\ UNCHANGED <<ledgerVars, hookVars, restVars>>

\* isActive changes: the cleanup of the previous effect runs stopMonitoring,
\* then the effect of the new render starts or stops monitoring
SetActive(b) ==
  /\ vizPhase = "mounted"
  /\ b # isActive
  /\ isActive' = b
  /\ LET q == stopMonitoring(cleanup, vizPending)
         q2 == IF b THEN startMonitoring(q) ELSE stopMonitoring(recording, q)
     IN /\ Len(q2) <= MaxVizPending
        /\ vizPending' = q2
  /\ vizIntervalRef' = Null
  /\ vizTimers' = ClearInterval(vizTimers, vizIntervalRef)
  /\ cleanup' = recording
  /\ UNCHANGED <<vizPhase, recording, recs, tick, vizLog, vizSettled, vizRaised>>
  /\ UNCHANGED <<ledgerVars, hookVars, restVars>>

\* unmount: the cleanup of the last effect runs stopMonitoring
VizUnmount ==
  /\ vizPhase = "mounted"
  /\ vizPhase' = "unmounted"
  /\ LET q == stopMonitoring(cleanup, vizPending)
     IN /\ Len(q) <= MaxVizPending
        /\ vizPending' = q
  /\ vizIntervalRef' = Null
  /\ vizTimers' = ClearInterval(vizTimers, vizIntervalRef)
  /\ UNCHANGED <<isActive, recording, recs, cleanup, tick, vizLog, vizSettled, vizRaised>>
  /\ UNCHANGED <<ledgerVars, hookVars, restVars>>

\* startMonitoring after requestPermissionsAsync (and setAudioModeAsync):
\* answer is "granted", "denied", or "error" when one of the two throws
ResumePermission(i, answer) ==
  /\ i \in 1..Len(vizPending)
  /\ vizPending[i].kind = "perm"
  /\ IF answer = "granted"
     THEN /\ Len(recs) < MaxRecs
          /\ recs' = Append(recs, "created")
          /\ vizPending' = [vizPending EXCEPT ![i] = VizEntry("prepare", Len(recs) + 1)]
          /\ UNCHANGED <<vizLog, vizSettled>>
     ELSE /\ vizLog' = IF answer = "denied" THEN "Audio permission not granted"
                       ELSE "Failed to start audio monitoring"
          /\ vizSettled' = "resolved"
          /\ vizPending' = RemoveAt(vizPending, i)
          /\ UNCHANGED recs
  /\ UNCHANGED <<isActive, vizPhase, recording, vizIntervalRef, vizTimers, cleanup,
                 tick, vizRaised>>
  /\ UNCHANGED <<ledgerVars, hookVars, restVars>>

\* startMonitoring after prepareToRecordAsync: only one Recording can be
\* prepared at a time
ResumePrepare(i, ok) ==
  /\ i \in 1..Len(vizPending)
  /\ vizPending[i].kind = "prepare"
  /\ ok => \A r \in 1..Len(recs) : ~HoldsMicrophone(recs[r])
  /\ IF ok
     THEN /\ recs' = [recs EXCEPT ![vizPending[i].rec] = "prepared"]
          /\ vizPending' = [vizPending EXCEPT ![i] = VizEntry("start", vizPending[i].rec)]
          /\ UNCHANGED <<vizLog, vizSettled>>
     ELSE /\ vizLog' = "Failed to start audio monitoring"
          /\ vizSettled' = "resolved"
          /\ vizPending' = RemoveAt(vizPending, i)
          /\ UNCHANGED recs
  /\ UNCHANGED <<isActive, vizPhase, recording, vizIntervalRef, vizTimers, cleanup,
                 tick, vizRaised>>
  /\ UNCHANGED <<ledgerVars, hookVars, restVars>>

\* startMonitoring after startAsync: setRecording and the polling interval
\* (a state update of an unmounted component is dropped)
ResumeStartAsync(i, ok) ==
  /\ i \in 1..Len(vizPending)
  /\ vizPending[i].kind = "start"
  /\ IF ok
     THEN /\ recs' = [recs EXCEPT ![vizPending[i].rec] = "recording"]
          /\ recording' = IF vizPhase = "mounted" THEN vizPending[i].rec ELSE recording
          /\ vizTimers' = Append(vizTimers, [live |-> TRUE, rec |-> vizPending[i].rec])
          /\ vizIntervalRef' = Len(vizTimers) + 1
          /\ UNCHANGED vizLog
     ELSE /\ vizLog' = "Failed to start audio monitoring"
          /\ UNCHANGED <<recs, recording, vizTimers, vizIntervalRef>>
  /\ vizSettled' = "resolved"
  /\ vizPending' = RemoveAt(vizPending, i)
  /\ UNCHANGED <<isActive, vizPhase, cleanup, tick, vizRaised>>
  /\ UNCHANGED <<ledgerVars, hookVars, restVars>>

\* stopMonitoring after stopAndUnloadAsync
ResumeUnload(i) ==
  /\ i \in 1..Len(vizPending)
  /\ vizPending[i].kind = "unload"
  /\ LET rec == vizPending[i].rec
         r == stopMonitoringAfterUnload(recs[rec], recording)
     IN /\ recs' = [recs EXCEPT ![rec] = r.status]
        /\ recording' = IF vizPhase = "mounted" THEN r.recording ELSE recording
        /\ vizRaised' = (vizRaised \/ r.raised)
        /\ vizLog' = IF r.log # "" THEN r.log ELSE vizLog
  /\ vizPending' = RemoveAt(vizPending, i)
  /\ UNCHANGED <<isActive, vizPhase, vizIntervalRef, vizTimers, cleanup, tick, vizSettled>>
  /\ UNCHANGED <<ledgerVars, hookVars, restVars>>

\* one firing of the polling interval; getStatusAsync throws, or returns
\* isRecording (true only while the recording records) and a metering value
PollTick(t, threw, isRec, metering) ==
  /\ t \in 1..Len(vizTimers)
  /\ vizTimers[t].live
  /\ isRec => recs[vizTimers[t].rec] = "recording"
  /\ tick' = pollStatus(threw, isRec, metering)
  /\ vizLog' = IF threw THEN "Error getting recording status" ELSE vizLog
  /\ UNCHANGED <<isActive, vizPhase, recording, vizIntervalRef, recs, vizTimers,
                 cleanup, vizPending, vizSettled, vizRaised>>
  /\ UNCHANGED <<ledgerVars, hookVars, restVars>>

InitViz ==
  /\ credits = [u \in Users |-> 0]
  /\ sessions = <<>>
  /\ now = 1
  /\ lastResult = NoResult
  /\ clerkUser = "u1"
  /\ mounted = TRUE
  /\ sessionId = Null
  /\ isTracking = FALSE
  /\ sessionCreditsUsed = 0
  /\ intervalRef = Null
  /\ timers = <<>>
  /\ pending = <<>>
  /\ endCalls = [i \in 1..MaxSessions + 1 |-> 0]
  /\ thrown = ""
  /\ isActive = FALSE
  /\ vizPhase = "init"
  /\ recording = Null
  /\ vizIntervalRef = Null
  /\ recs = <<>>
  /\ vizTimers = <<>>
  /\ cleanup = Null
  /\ vizPending = <<>>
  /\ tick = NoTick
  /\ vizLog = ""
  /\ vizSettled = "none"
  /\ vizRaised = FALSE
  /\ sessionSecondsUsed = 0
  /\ ledgerFigures = NoFigures
  /\ fsmState = "Idle"
  /\ fsmReason = ""
  /\ lastTrigger = ""
  /\ attempts = 0
  /\ lastDelay = 0
  /\ online = TRUE
  /\ configSent = FALSE
  /\ acked = FALSE
  /\ fsmCredits = 0
  /\ triggersLeft = 0
  /\ buffer = [r \in Responses |-> <<>>]
  /\ markerSeen = [r \in Responses |-> FALSE]
  /\ respOrder = <<>>
  /\ playing = {}
  /\ played = [r \in Responses |-> <<>>]
  /\ finished = {}
  /\ cancelled = {}
  /\ bargedIn = {}
  /\ reordered = [r \in Responses |-> FALSE]
  /\ fate = [r \in Responses |-> [k \in Frags |-> "none"]]

NextViz ==
  \/ \E b \in BOOLEAN : VizMount(b)
  \/ \E b \in BOOLEAN : SetActive(b)
  \/ VizUnmount
  \/ \E i \in 1..MaxVizPending, a \in {"granted", "denied", "error"} : ResumePermission(i, a)
  \/ \E i \in 1..MaxVizPending, ok \in BOOLEAN : ResumePrepare(i, ok)
  \/ \E i \in 1..MaxVizPending, ok \in BOOLEAN : ResumeStartAsync(i, ok)
  \/ \E i \in 1..MaxVizPending : ResumeUnload(i)
  \/ \E t \in 1..MaxRecs, threw \in BOOLEAN, isRec \in BOOLEAN,
        m \in Levels \cup {Undefined} : PollTick(t, threw, isRec, m)

\* ===================== hook useTrackUsage, fractional-credit version
\* The version of the hook that calls updateFractionalCredits every 3 s.
\* Balances and usage are counted in units of 0.05 credit, the charge for
\* 3 seconds.  startTracking up to its await and the unmount cleanup are the
\* code of the other version (StartTracking, Unmount).
\* setSessionCreditsUsed(0.05): "Minimum charge already applied"
MinimumCharge == 1
\* setSessionSecondsUsed(3)
MinimumSeconds == 3
\* const secondsToAdd = 3
SecondsToAdd == 3
\* the seconds that a number of 0.05-credit units pays for
SecondsOf(units) == units * SecondsToAdd

\* The ledger mutation behind the heartbeat of this version: it charges the
\* user's active session for secondsToAdd seconds and returns
\* {sessionCreditsUsed, secondsUsed, creditsRemaining}.
updateFractionalCredits(cr, ss, t, clerkId, secondsToAdd) ==
  LET u == FindUser(clerkId)
      a == FirstActive(ss, u)
      cost == secondsToAdd \div SecondsToAdd
  IN
  IF u = NoUser THEN Fail("User not found", cr, ss)
  ELSE IF a = Null THEN Fail("No active session found", cr, ss)
  ELSE IF cr[u] <= 0 THEN Fail("Insufficient credits - session ended", cr, ss)
  ELSE Result(TRUE, "", a, cr[u] - cost, ss[a].creditsUsed + cost,
              [cr EXCEPT ![u] = cr[u] - cost],
              [ss EXCEPT ![a].creditsUsed = ss[a].creditsUsed + cost])

\* if (result.creditsRemaining <= 0.05)
QuotaReachedF(creditsRemaining) == creditsRemaining <= MinimumCharge

\* stopTracking of this version: it also resets sessionSecondsUsed
stopTrackingF(cap, used, secs, q) ==
  /\ stopTracking(cap, used, q)
  /\ sessionSecondsUsed' = IF cap # Null THEN secs ELSE 0

\* startTracking after the await
ResumeStartF ==
  /\ UNCHANGED <<fsmVars, pbVars>>
  /\ pending # <<>>
  /\ Head(pending).kind = "start"
  /\ LET e == Head(pending) IN
     IF e.ok
     THEN /\ sessionId' = e.sid
          /\ isTracking' = TRUE
          /\ sessionCreditsUsed' = MinimumCharge
          /\ sessionSecondsUsed' = MinimumSeconds
          /\ ledgerFigures' = [creditsUsed |-> e.sessionCreditsUsed,
                               secondsUsed |-> SecondsOf(e.sessionCreditsUsed)]
          /\ timers' = Append(timers, [live |-> TRUE, sid |-> e.sid, cap |-> e.cap])
          /\ intervalRef' = Len(timers) + 1
          /\ thrown' = ""
     ELSE /\ thrown' = e.error
          /\ UNCHANGED <<sessionId, isTracking, sessionCreditsUsed, timers,
                         intervalRef, fracVars>>
  /\ pending' = Tail(pending)
  /\ UNCHANGED <<ledgerVars, clerkUser, mounted, endCalls, vizVars>>

\* the interval callback up to `await updateFractionalCredits(...)`
TimerFireF(t) ==
  /\ UNCHANGED <<fsmVars, pbVars>>
  /\ t \in 1..Len(timers)
  /\ timers[t].live
  /\ Len(pending) < MaxPending
  /\ LET r == updateFractionalCredits(credits, sessions, now, clerkUser, SecondsToAdd) IN
     /\ Commit(r)
     /\ pending' = Append(pending, Entry("heartbeat", r, t, timers[t].cap))
  /\ UNCHANGED <<clerkUser, mounted, sessionId, isTracking, sessionCreditsUsed,
                 intervalRef, timers, endCalls, thrown, fracVars, vizVars>>

\* the interval callback after the await
ResumeHeartbeatF ==
  /\ UNCHANGED <<fsmVars, pbVars>>
  /\ pending # <<>>
  /\ Head(pending).kind = "heartbeat"
  /\ LET e == Head(pending) IN
     /\ ledgerFigures' = IF e.ok
                         THEN [creditsUsed |-> e.sessionCreditsUsed,
                               secondsUsed |-> SecondsOf(e.sessionCreditsUsed)]
                         ELSE ledgerFigures
     /\ IF e.ok /\ ~QuotaReachedF(e.creditsRemaining)
        THEN /\ sessionCreditsUsed' = e.sessionCreditsUsed
             /\ sessionSecondsUsed' = SecondsOf(e.sessionCreditsUsed)
             /\ pending' = Tail(pending)
             /\ UNCHANGED <<ledgerVars, sessionId, isTracking, intervalRef, timers, endCalls>>
        ELSE stopTrackingF(e.cap,
                           IF e.ok THEN e.sessionCreditsUsed ELSE sessionCreditsUsed,
                           IF e.ok THEN SecondsOf(e.sessionCreditsUsed)
                           ELSE sessionSecondsUsed,
                           Tail(pending))
  /\ UNCHANGED <<clerkUser, mounted, thrown, vizVars>>

\* stopTracking called by the user of the hook, from the current render
StopTrackingF ==
  /\ UNCHANGED <<fsmVars, pbVars>>
  /\ mounted
  /\ Len(pending) < MaxPending
  /\ stopTrackingF(sessionId, sessionCreditsUsed, sessionSecondsUsed, pending)
  /\ UNCHANGED <<clerkUser, mounted, thrown, ledgerFigures, vizVars>>

\* stopTracking after `await endSession({sessionId})`
ResumeStopF ==
  /\ UNCHANGED <<fsmVars, pbVars>>
  /\ pending # <<>>
  /\ Head(pending).kind = "stop"
  /\ isTracking' = FALSE
  /\ sessionId' = Null
  /\ sessionCreditsUsed' = 0
  /\ sessionSecondsUsed' = 0
  /\ pending' = Tail(pending)
  /\ UNCHANGED <<ledgerVars, clerkUser, mounted, intervalRef, timers, endCalls,
                 thrown, ledgerFigures, vizVars>>

NextHookF ==
  \/ StartTracking
  \/ ResumeStartF
  \/ \E t \in 1..MaxSessions : TimerFireF(t)
  \/ ResumeHeartbeatF
  \/ StopTrackingF
  \/ ResumeStopF
  \/ Unmount

\* ================== session state machine and reconnection controller
\* The machine of section 4.1 with the controller of section 4.5.  Events
\* reach the machine as triggers; a trigger that the table does not list
\* for the current state is ignored.
States == {"Idle", "RequestingPermission", "Connecting", "ConfiguringSession",
           "Streaming", "Suspended", "Stopping", "Closed", "Failed"}
Terminal == {"Closed", "Failed"}

\* produced by the controller, the timers and the pipelines of the session
InternalTriggers == {"reconnected", "retries-exhausted", "attempt-failed",
                     "config-timeout", "credits-exhausted", "drain-complete"}
\* produced by the user, the permission dialog, the transport and the remote
ExternalTriggers == {"start", "granted", "denied", "transport-open", "ack",
                     "transport-error", "user-stop", "fatal-error",
                     "speech-started"}
Triggers == InternalTriggers \cup ExternalTriggers

\* the transitions of section 4.1, as <<state, trigger>>
Listed ==
  {<<"Idle", "start">>,
   <<"RequestingPermission", "granted">>, <<"RequestingPermission", "denied">>,
   <<"Connecting", "transport-open">>,
   <<"ConfiguringSession", "ack">>, <<"ConfiguringSession", "config-timeout">>,
   <<"Streaming", "transport-error">>, <<"Streaming", "credits-exhausted">>,
   <<"Streaming", "user-stop">>,
   <<"Suspended", "reconnected">>, <<"Suspended", "retries-exhausted">>,
   <<"Suspended", "user-stop">>,
   <<"Stopping", "drain-complete">>}
  \cup {<<st, "fatal-error">> : st \in States \ Terminal}

Outcome(st, reason, sent, ack) ==
  [state |-> st, reason |-> reason, configSent |-> sent, acked |-> ack]

\* mutant: a reconnect resumes streaming on the new transport at once
Transition_ResumeStreaming(st, t, sent, ack) ==
  CASE st = "Idle" /\ t = "start" -> Outcome("RequestingPermission", "", sent, ack)
    [] st = "RequestingPermission" /\ t = "granted" -> Outcome("Connecting", "", sent, ack)
    [] st = "RequestingPermission" /\ t = "denied" -> Outcome("Failed", "PermissionDenied", sent, ack)
    [] st = "Connecting" /\ t = "transport-open" -> Outcome("ConfiguringSession", "", TRUE, FALSE)
    [] st = "ConfiguringSession" /\ t = "ack" -> Outcome("Streaming", "", sent, TRUE)
    [] st = "ConfiguringSession" /\ t = "config-timeout" -> Outcome("Failed", "ConfigTimeout", sent, ack)
    [] st = "Streaming" /\ t = "transport-error" -> Outcome("Suspended", "", FALSE, FALSE)
    [] st = "Streaming" /\ t = "credits-exhausted" -> Outcome("Stopping", "QuotaExceeded", sent, ack)
    [] st \in {"Streaming", "Suspended"} /\ t = "user-stop" -> Outcome("Stopping", "UserStop", sent, ack)
    [] st = "Suspended" /\ t = "reconnected" -> Outcome("Streaming", "", sent, ack)
    [] st = "Suspended" /\ t = "retries-exhausted" -> Outcome("Failed", "ConnectionLost", sent, ack)
    [] st = "Stopping" /\ t = "drain-complete" -> Outcome("Closed", "", sent, ack)
    [] st \notin Terminal /\ t = "fatal-error" -> Outcome("Failed", "CaptureDeviceError", sent, ack)
    [] OTHER -> Outcome(st, "", sent, ack)

\* mutant: start() is accepted again after the session has ended
Transition_Restart(st, t, sent, ack) ==
  CASE st \in {"Idle", "Closed", "Failed"} /\ t = "start" -> Outcome("RequestingPermission", "", sent, ack)
    [] st = "RequestingPermission" /\ t = "granted" -> Outcome("Connecting", "", sent, ack)
    [] st = "RequestingPermission" /\ t = "denied" -> Outcome("Failed", "PermissionDenied", sent, ack)
    [] st = "Connecting" /\ t = "transport-open" -> Outcome("ConfiguringSession", "", TRUE, FALSE)
    [] st = "ConfiguringSession" /\ t = "ack" -> Outcome("Streaming", "", sent, TRUE)
    [] st = "ConfiguringSession" /\ t = "config-timeout" -> Outcome("Failed", "ConfigTimeout", sent, ack)
    [] st = "Streaming" /\ t = "transport-error" -> Outcome("Suspended", "", FALSE, FALSE)
    [] st = "Streaming" /\ t = "credits-exhausted" -> Outcome("Stopping", "QuotaExceeded", sent, ack)
    [] st \in {"Streaming", "Suspended"} /\ t = "user-stop" -> Outcome("Stopping", "UserStop", sent, ack)
    [] st = "Suspended" /\ t = "reconnected" -> Outcome("ConfiguringSession", "", TRUE, FALSE)
    [] st = "Suspended" /\ t = "retries-exhausted" -> Outcome("Failed", "ConnectionLost", sent, ack)
    [] st = "Stopping" /\ t = "drain-complete" -> Outcome("Closed", "", sent, ack)
    [] st \notin Terminal /\ t = "fatal-error" -> Outcome("Failed", "CaptureDeviceError", sent, ack)
    [] OTHER -> Outcome(st, "", sent, ack)

\* The state after trigger t in state st.  sent and ack record whether the
\* configuration message has been sent, and acknowledged, on the transport
\* that is open: entering ConfiguringSession sends it, losing the transport
\* forgets both.  The reason of an unchanged state is empty.
Transition(st, t, sent, ack) ==
  CASE st = "Idle" /\ t = "start" -> Outcome("RequestingPermission", "", sent, ack)
    [] st = "RequestingPermission" /\ t = "granted" -> Outcome("Connecting", "", sent, ack)
    [] st = "RequestingPermission" /\ t = "denied" -> Outcome("Failed", "PermissionDenied", sent, ack)
    [] st = "Connecting" /\ t = "transport-open" -> Outcome("ConfiguringSession", "", TRUE, FALSE)
    [] st = "ConfiguringSession" /\ t = "ack" -> Outcome("Streaming", "", sent, TRUE)
    [] st = "ConfiguringSession" /\ t = "config-timeout" -> Outcome("Failed", "ConfigTimeout", sent, ack)
    [] st = "Streaming" /\ t = "transport-error" -> Outcome("Suspended", "", FALSE, FALSE)
    [] st = "Streaming" /\ t = "credits-exhausted" -> Outcome("Stopping", "QuotaExceeded", sent, ack)
    [] st \in {"Streaming", "Suspended"} /\ t = "user-stop" -> Outcome("Stopping", "UserStop", sent, ack)
    [] st = "Suspended" /\ t = "reconnected" -> Outcome("ConfiguringSession", "", TRUE, FALSE)
    [] st = "Suspended" /\ t = "retries-exhausted" -> Outcome("Failed", "ConnectionLost", sent, ack)
    [] st = "Stopping" /\ t = "drain-complete" -> Outcome("Closed", "", sent, ack)
    [] st \notin Terminal /\ t = "fatal-error" -> Outcome("Failed", "CaptureDeviceError", sent, ack)
    [] OTHER -> Outcome(st, "", sent, ack)

\* the machine takes trigger t
Apply(t) ==
  LET r == Transition(fsmState, t, configSent, acked) IN
  /\ fsmState' = r.state
  /\ fsmReason' = IF r.state # fsmState THEN r.reason ELSE fsmReason
  /\ configSent' = r.configSent
  /\ acked' = r.acked
  /\ lastTrigger' = t

\* ------------------------------------------------ reconnection controller
\* backoff: 1 s doubled per attempt, with a random variance of 10 %, at most
\* 30 s; at most 10 attempts.  Delays are in tenths of a second.
BaseDelay == 10
MaxDelay == 300
MaxAttempts == 10
Jitter == {-1, 0, 1}

Min(a, b) == IF a <= b THEN a ELSE b

\* mutant: the jitter is added to the delay after it was clamped
Delay_JitterAfterClamp(n, j) ==
  (Min(MaxDelay, BaseDelay * 2^n) * (10 + j)) \div 10

\* the delay before attempt n (0, 1, ...) with jitter j tenths
Delay(n, j) == Min(MaxDelay, (BaseDelay * 2^n * (10 + j)) \div 10)

\* mutant: failed attempts are not counted
CountAttempt_Never(n) == n

\* the number of attempts made after one more
CountAttempt(n) == n + 1

\* a trigger from outside the session; a controller or timer event that
\* arrives in a state that does not await it is delivered too
Deliver(t) ==
  /\ triggersLeft > 0
  /\ triggersLeft' = triggersLeft - 1
  /\ t \in InternalTriggers => <<fsmState, t>> \notin Listed
  /\ Apply(t)
  /\ attempts' = IF fsmState' = "Suspended" /\ fsmState # "Suspended" THEN 0 ELSE attempts
  /\ lastDelay' = IF fsmState' = "Suspended" /\ fsmState # "Suspended" THEN 0 ELSE lastDelay
  /\ UNCHANGED <<online, fsmCredits>>
  /\ UNCHANGED <<ledgerVars, hookVars, vizVars, fracVars, pbVars>>

\* the device loses or regains network reachability
NetworkChange ==
  /\ triggersLeft > 0
  /\ triggersLeft' = triggersLeft - 1
  /\ online' = ~online
  /\ UNCHANGED <<fsmState, fsmReason, lastTrigger, attempts, lastDelay,
                 configSent, acked, fsmCredits>>
  /\ UNCHANGED <<ledgerVars, hookVars, vizVars, fracVars, pbVars>>

\* one reconnection attempt after its backoff delay: it opens a transport
\* (ok) or fails; retries are suppressed while offline
Attempt(ok, j) ==
  /\ fsmState = "Suspended"
  /\ online
  /\ attempts < MaxAttempts
  /\ lastDelay' = Delay(attempts, j)
  /\ attempts' = CountAttempt(attempts)
  /\ Apply(IF ok THEN "reconnected"
           ELSE IF CountAttempt(attempts) >= MaxAttempts THEN "retries-exhausted"
           ELSE "attempt-failed")
  /\ UNCHANGED <<online, fsmCredits, triggersLeft>>
  /\ UNCHANGED <<ledgerVars, hookVars, vizVars, fracVars, pbVars>>

\* the configuration acknowledgement did not arrive in time
ConfigTimeout ==
  /\ fsmState = "ConfiguringSession"
  /\ Apply("config-timeout")
  /\ UNCHANGED <<attempts, lastDelay, online, fsmCredits, triggersLeft>>
  /\ UNCHANGED <<ledgerVars, hookVars, vizVars, fracVars, pbVars>>

\* a usage heartbeat while streaming: creditsRemaining <= 0 ends the session
Heartbeat ==
  /\ fsmState = "Streaming"
  /\ fsmCredits > 0
  /\ fsmCredits' = fsmCredits - 1
  /\ IF fsmCredits - 1 <= 0
     THEN Apply("credits-exhausted")
     ELSE UNCHANGED <<fsmState, fsmReason, lastTrigger, configSent, acked>>
  /\ UNCHANGED <<attempts, lastDelay, online, triggersLeft>>
  /\ UNCHANGED <<ledgerVars, hookVars, vizVars, fracVars, pbVars>>

\* playback has drained, the ledger session is ended, the handle released
Drain ==
  /\ fsmState = "Stopping"
  /\ Apply("drain-complete")
  /\ UNCHANGED <<attempts, lastDelay, online, fsmCredits, triggersLeft>>
  /\ UNCHANGED <<ledgerVars, hookVars, vizVars, fracVars, pbVars>>

InitSession ==
  /\ credits = [u \in Users |-> 0]
  /\ sessions = <<>>
  /\ now = 1
  /\ lastResult = NoResult
  /\ clerkUser = "u1"
  /\ mounted = TRUE
  /\ sessionId = Null
  /\ isTracking = FALSE
  /\ sessionCreditsUsed = 0
  /\ intervalRef = Null
  /\ timers = <<>>
  /\ pending = <<>>
  /\ endCalls = [i \in 1..MaxSessions + 1 |-> 0]
  /\ thrown = ""
  /\ isActive = FALSE
  /\ vizPhase = "init"
  /\ recording = Null
  /\ vizIntervalRef = Null
  /\ recs = <<>>
  /\ vizTimers = <<>>
  /\ cleanup = Null
  /\ vizPending = <<>>
  /\ tick = NoTick
  /\ vizLog = ""
  /\ vizSettled = "none"
  /\ vizRaised = FALSE
  /\ sessionSecondsUsed = 0
  /\ ledgerFigures = NoFigures
  /\ fsmState = "Idle"
  /\ fsmReason = ""
  /\ lastTrigger = ""
  /\ attempts = 0
  /\ lastDelay = 0
  /\ online = TRUE
  /\ configSent = FALSE
  /\ acked = FALSE
  /\ fsmCredits \in 1..MaxCredits
  /\ triggersLeft = MaxTriggers
  /\ buffer = [r \in Responses |-> <<>>]
  /\ markerSeen = [r \in Responses |-> FALSE]
  /\ respOrder = <<>>
  /\ playing = {}
  /\ played = [r \in Responses |-> <<>>]
  /\ finished = {}
  /\ cancelled = {}
  /\ bargedIn = {}
  /\ reordered = [r \in Responses |-> FALSE]
  /\ fate = [r \in Responses |-> [k \in Frags |-> "none"]]

NextSession ==
  \/ \E t \in Triggers : Deliver(t)
  \/ NetworkChange
  \/ \E ok \in BOOLEAN, j \in Jitter : Attempt(ok, j)
  \/ ConfigTimeout
  \/ Heartbeat
  \/ Drain

\* ================================================ audio playback pipeline
\* Section 4.4: fragments are accumulated per response identifier and a
\* response is played, in the order of the fragments' tags, once its
\* end-of-response marker was observed; responses are played one at a time
\* in the order in which they were first seen; speech-started cancels the
\* response that is playing.  The network may deliver the fragments of a
\* response in any order, and a fragment after the marker of its response.

SeqRange(q) == {q[i] : i \in DOMAIN q}

\* mutant: a fragment is buffered in the order of delivery
Insert_Append(buf, k) == Append(buf, k)

\* fragment k is buffered at its place in the order of the tags
Insert(buf, k) ==
  LET before == SelectSeq(buf, LAMBDA x : x < k)
      after == SelectSeq(buf, LAMBDA x : x > k)
  IN before \o <<k>> \o after

\* the responses in the order in which the pipeline first saw them
Known(ord, r) == IF r \in SeqRange(ord) THEN ord ELSE Append(ord, r)

\* mutant: a response is started as soon as its marker is observed
Ready_Eager(pl, ord, seen, fin, can) ==
  {r \in SeqRange(ord) : seen[r] /\ r \notin (fin \cup can \cup pl)}

\* the response that may start playing: none while one plays, else the
\* oldest that is neither finished nor cancelled, once its marker was seen
Ready(pl, ord, seen, fin, can) ==
  LET open == {i \in DOMAIN ord : ord[i] \notin (fin \cup can)} IN
  IF pl # {} \/ open = {}
  THEN {}
  ELSE LET i == CHOOSE x \in open : \A y \in open : x <= y IN
       IF seen[ord[i]] THEN {ord[i]} ELSE {}

\* mutant: cancellation only stops the playback
cancelResponse_StopOnly(buf, can, P) == [buffer |-> buf, cancelled |-> can]

\* explicit cancellation of the responses P: their buffered fragments are
\* discarded and later fragments of theirs will be refused
cancelResponse(buf, can, P) ==
  [buffer |-> [r \in Responses |-> IF r \in P THEN <<>> ELSE buf[r]],
   cancelled |-> can \cup P]

\* audio-delta: fragment k of response r arrives
DeliverFragment(r, k) ==
  /\ fate[r][k] = "none"
  /\ IF r \in cancelled
     THEN /\ fate' = [fate EXCEPT ![r][k] = "refused"]
          /\ UNCHANGED <<buffer, respOrder, reordered>>
     ELSE IF markerSeen[r]
     THEN /\ fate' = [fate EXCEPT ![r][k] = "late"]
          /\ UNCHANGED <<buffer, respOrder, reordered>>
     ELSE /\ fate' = [fate EXCEPT ![r][k] = "buffered"]
          /\ buffer' = [buffer EXCEPT ![r] = Insert(@, k)]
          /\ respOrder' = Known(respOrder, r)
          /\ reordered' = [reordered EXCEPT ![r] =
                              @ \/ \E m \in SeqRange(buffer[r]) : k < m]
  /\ UNCHANGED <<markerSeen, playing, played, finished, cancelled, bargedIn>>
  /\ UNCHANGED <<ledgerVars, hookVars, vizVars, fracVars, fsmVars>>

\* response-done: the end-of-response marker of r arrives
DeliverMarker(r) ==
  /\ ~markerSeen[r]
  /\ markerSeen' = [markerSeen EXCEPT ![r] = TRUE]
  /\ respOrder' = Known(respOrder, r)
  /\ UNCHANGED <<buffer, playing, played, finished, cancelled, bargedIn,
                 reordered, fate>>
  /\ UNCHANGED <<ledgerVars, hookVars, vizVars, fracVars, fsmVars>>

StartPlayback(r) ==
  /\ r \in Ready(playing, respOrder, markerSeen, finished, cancelled)
  /\ playing' = playing \cup {r}
  /\ UNCHANGED <<buffer, markerSeen, respOrder, played, finished, cancelled,
                 bargedIn, reordered, fate>>
  /\ UNCHANGED <<ledgerVars, hookVars, vizVars, fracVars, fsmVars>>

\* the next fragment of the playing response is rendered
PlayFragment(r) ==
  /\ r \in playing
  /\ buffer[r] # <<>>
  /\ LET k == Head(buffer[r]) IN
       /\ played' = [played EXCEPT ![r] = Append(@, k)]
       /\ buffer' = [buffer EXCEPT ![r] = Tail(@)]
       /\ fate' = [fate EXCEPT ![r][k] = "played"]
  /\ UNCHANGED <<markerSeen, respOrder, playing, finished, cancelled,
                 bargedIn, reordered>>
  /\ UNCHANGED <<ledgerVars, hookVars, vizVars, fracVars, fsmVars>>

\* the playing response has no fragment left
FinishPlayback(r) ==
  /\ r \in playing
  /\ buffer[r] = <<>>
  /\ finished' = finished \cup {r}
  /\ playing' = playing \ {r}
  /\ UNCHANGED <<buffer, markerSeen, respOrder, played, cancelled, bargedIn,
                 reordered, fate>>
  /\ UNCHANGED <<ledgerVars, hookVars, vizVars, fracVars, fsmVars>>

\* speech-started: the user speaks; what is playing is cancelled
SpeechStarted ==
  LET c == cancelResponse(buffer, cancelled, playing) IN
  /\ bargedIn' = bargedIn \cup playing
  /\ playing' = {}
  /\ buffer' = c.buffer
  /\ cancelled' = c.cancelled
  /\ fate' = [r \in Responses |-> [k \in Frags |->
                IF r \in playing /\ k \in SeqRange(buffer[r])
                THEN "discarded" ELSE fate[r][k]]]
  /\ UNCHANGED <<markerSeen, respOrder, played, finished, reordered>>
  /\ UNCHANGED <<ledgerVars, hookVars, vizVars, fracVars, fsmVars>>

InitPlayback ==
  /\ credits = [u \in Users |-> 0]
  /\ sessions = <<>>
  /\ now = 1
  /\ lastResult = NoResult
  /\ clerkUser = "u1"
  /\ mounted = TRUE
  /\ sessionId = Null
  /\ isTracking = FALSE
  /\ sessionCreditsUsed = 0
  /\ intervalRef = Null
  /\ timers = <<>>
  /\ pending = <<>>
  /\ endCalls = [i \in 1..MaxSessions + 1 |-> 0]
  /\ thrown = ""
  /\ isActive = FALSE
  /\ vizPhase = "init"
  /\ recording = Null
  /\ vizIntervalRef = Null
  /\ recs = <<>>
  /\ vizTimers = <<>>
  /\ cleanup = Null
  /\ vizPending = <<>>
  /\ tick = NoTick
  /\ vizLog = ""
  /\ vizSettled = "none"
  /\ vizRaised = FALSE
  /\ sessionSecondsUsed = 0
  /\ ledgerFigures = NoFigures
  /\ fsmState = "Idle"
  /\ fsmReason = ""
  /\ lastTrigger = ""
  /\ attempts = 0
  /\ lastDelay = 0
  /\ online = TRUE
  /\ configSent = FALSE
  /\ acked = FALSE
  /\ fsmCredits = 0
  /\ triggersLeft = 0
  /\ buffer = [r \in Responses |-> <<>>]
  /\ markerSeen = [r \in Responses |-> FALSE]
  /\ respOrder = <<>>
  /\ playing = {}
  /\ played = [r \in Responses |-> <<>>]
  /\ finished = {}
  /\ cancelled = {}
  /\ bargedIn = {}
  /\ reordered = [r \in Responses |-> FALSE]
  /\ fate = [r \in Responses |-> [k \in Frags |-> "none"]]

NextPlayback ==
  \/ \E r \in Responses, k \in Frags : DeliverFragment(r, k)
  \/ \E r \in Responses : DeliverMarker(r)
  \/ \E r \in Responses : StartPlayback(r)
  \/ \E r \in Responses : PlayFragment(r)
  \/ \E r \in Responses : FinishPlayback(r)
  \/ SpeechStarted

vars == <<ledgerVars, hookVars, vizVars, restVars>>

SpecLedger == InitLedger /\ [][NextLedger]_vars

SpecHook == InitHook /\ [][NextHook]_vars

SpecViz == InitViz /\ [][NextViz]_vars

SpecHookF == InitHook /\ [][NextHookF]_vars

SpecSession == InitSession /\ [][NextSession]_vars

SpecPlayback == InitPlayback /\ [][NextPlayback]_vars

\* the backoff timer, the acknowledgement timeout, the heartbeat cadence and
\* the drain each run to completion
SpecSessionFair ==
  /\ SpecSession
  /\ WF_vars(\E ok \in BOOLEAN, j \in Jitter : Attempt(ok, j))
  /\ WF_vars(ConfigTimeout)
  /\ WF_vars(Heartbeat)
  /\ WF_vars(Drain)

\* ============================================== properties: ledger and hook
\* the heartbeat response the interval callback is about to handle
HeadIsHeartbeat == pending # <<>> /\ Head(pending).kind = "heartbeat"

\* C1: when a heartbeat returns creditsRemaining = 0 while tracking, handling
\* it clears the timer that issued it, stops tracking (at once, or after the
\* endSession it awaits), and endSession has then been called exactly once
\* for the session that the startTracking of that timer created.
C1_EndsSessionOnQuota ==
  [][(ResumeHeartbeat /\ HeadIsHeartbeat /\ isTracking
        /\ Head(pending).ok /\ Head(pending).creditsRemaining = 0)
     => /\ ~timers'[Head(pending).timer].live
        /\ endCalls'[timers[Head(pending).timer].sid] = 1
        /\ \/ ~isTracking'
           \/ \E i \in 1..Len(pending') : pending'[i].kind = "stop"]_vars

\* C2: handling a heartbeat response with creditsRemaining <= 0 clears the
\* timer that issued the heartbeat, so that it issues no further heartbeat.
C2_QuotaClearsTimer ==
  [][(ResumeHeartbeat /\ HeadIsHeartbeat
        /\ Head(pending).ok /\ Head(pending).creditsRemaining <= 0)
     => ~timers'[Head(pending).timer].live]_vars

\* C3: every user has at most one active session in every ledger state, and
\* a successful startSession leaves every session of that user that was
\* active inactive and appends exactly one session, which is active.
AtMostOneActive == \A u \in Users : Cardinality(ActiveIds(sessions, u)) <= 1

StartSessionEffect ==
  (Len(sessions') = Len(sessions) + 1)
  => LET n == Len(sessions')
         u == sessions'[n].userId
     IN /\ sessions'[n].isActive
        /\ sessions'[n].creditsUsed = 0
        /\ \A i \in ActiveIds(sessions, u) :
             ~sessions'[i].isActive /\ sessions'[i].endedAt # Null
        /\ ActiveIds(sessions', u) = {n}
        /\ \A i \in 1..Len(sessions) :
             sessions[i].userId # u => sessions'[i] = sessions[i]

C3_OneActiveSession == [](AtMostOneActive) /\ [][StartSessionEffect]_vars

\* C3 witness: a user started a session while an earlier one was active;
\* the earlier one was ended by that start and the new one is active.
C3_Witness ==
  \E i, j \in 1..Len(sessions) :
    /\ i < j
    /\ sessions[i].userId = sessions[j].userId
    /\ ~sessions[i].isActive
    /\ sessions[i].endedAt = sessions[j].startedAt
    /\ sessions[j].isActive
    /\ lastResult.ok /\ lastResult.sid = j

\* C4: when startTracking completes while the hook is already tracking,
\* exactly one heartbeat timer is live afterwards, the one of the new session.
C4_RestartClearsOldTimer ==
  [][(ResumeStart /\ Head(pending).ok /\ isTracking)
     => LET live == {t \in 1..Len(timers') : timers'[t].live}
        IN /\ live = {intervalRef'}
           /\ timers'[intervalRef'].sid = sessionId']_vars

\* C5: a user stop of a started session clears the heartbeat timer, and
\* counted over all stopTracking invocations endSession has been invoked
\* exactly once for that session id.
C5_UserStopEndsOnce ==
  [][(StopTracking /\ sessionId # Null)
     => /\ intervalRef' = Null
        /\ endCalls'[sessionId] = 1]_vars

\* C6: every heartbeat is charged to the session that the startTracking of
\* the issuing timer created.
C6_HeartbeatChargesOwnSession ==
  \A i \in 1..Len(pending) :
    (pending[i].kind = "heartbeat" /\ pending[i].ok)
      => pending[i].sid = timers[pending[i].timer].sid

\* ========================================== properties: AudioVisualizer
VizQuiescent == vizPending = <<>>

\* C7: once the component is deactivated or unmounted and no native call is
\* pending, no recording that it started is still recording.
C7_RecordingReleased ==
  (VizQuiescent /\ (vizPhase = "unmounted" \/ (vizPhase = "mounted" /\ ~isActive)))
    => \A r \in 1..Len(recs) : recs[r] # "recording"

\* C8: stopMonitoring never lets an error escape; every run of it leaves the
\* timer reference null; run with no recording and no timer it changes
\* nothing; and run again on a recording that is already unloaded it leaves
\* the state the first run produced.
StopIsIdempotent ==
  /\ (VizUnmount \/ SetActive(FALSE)) => vizIntervalRef' = Null
  /\ ((VizUnmount \/ SetActive(FALSE))
        /\ vizIntervalRef = Null /\ recording = Null /\ cleanup = Null)
     => UNCHANGED <<recording, recs, vizTimers, vizPending, vizIntervalRef>>
  /\ (\E i \in 1..Len(vizPending) :
         ResumeUnload(i) /\ recs[vizPending[i].rec] = "unloaded")
     => (UNCHANGED <<recording, recs, vizTimers, vizIntervalRef>> /\ ~vizRaised')

C8_StopIdempotent == [](~vizRaised) /\ [][StopIsIdempotent]_vars

\* C8 witness: a second stopMonitoring found its recording already unloaded;
\* the rejection was caught and the monitor is stopped.
C8_Witness ==
  /\ vizLog = "Error stopping recording"
  /\ ~vizRaised
  /\ vizIntervalRef = Null
  /\ recording = Null
  /\ \E r \in 1..Len(recs) : recs[r] = "unloaded"

\* C9: when microphone access is rejected, startMonitoring fails (its
\* promise is rejected with the permission error) instead of completing.
C9_PermissionDeniedReported ==
  (vizLog = "Audio permission not granted") => vizSettled = "rejected"

\* C10: on a poll tick onAudioLevel is invoked exactly once, with the
\* metering value, when the status read reports isRecording and a defined
\* metering value, whatever the value is relative to SPEECH_THRESHOLD; on
\* every other tick it is not invoked.
C10_LevelNotGated ==
  /\ tick.calls = (IF ~tick.threw /\ tick.isRecording /\ tick.metering # Undefined
                   THEN 1 ELSE 0)
  /\ tick.calls = 1 => tick.level = tick.metering

\* C10 witness: a level at or below the threshold was reported
C10_Witness ==
  /\ tick.calls = 1
  /\ tick.level <= SPEECH_THRESHOLD
  /\ ~tick.isSpeaking

\* ===================================== properties: fractional-credit hook
\* C11: while tracking, the sessionCreditsUsed and sessionSecondsUsed that
\* the hook exposes are the figures the ledger handed to it: those of the
\* session startSession created, then those of the latest heartbeat response.
C11_FiguresFromLedger ==
  isTracking => /\ sessionCreditsUsed = ledgerFigures.creditsUsed
                /\ sessionSecondsUsed = ledgerFigures.secondsUsed

\* ================================================== properties: ledger
RECURSIVE UsedBy(_, _, _)
\* the creditsUsed of the first n sessions that belong to user u, summed
UsedBy(ss, u, n) ==
  IF n = 0 THEN 0
  ELSE UsedBy(ss, u, n - 1) + (IF ss[n].userId = u THEN ss[n].creditsUsed ELSE 0)

\* what a user holds plus what the user's sessions have used
TotalCredits(cr, ss, u) == cr[u] + UsedBy(ss, u, Len(ss))

\* C19: for each user, credits plus the creditsUsed of all the user's
\* sessions is the same before and after every ledger step.
C19_CreditsConserved ==
  [][\A u \in Users :
       TotalCredits(credits', sessions', u) = TotalCredits(credits, sessions, u)]_vars

\* C19 witness: one user's credits were deducted in two different sessions
C19_Witness ==
  \E i, j \in 1..Len(sessions) :
    /\ i # j
    /\ sessions[i].userId = sessions[j].userId
    /\ sessions[i].creditsUsed >= 1
    /\ sessions[j].creditsUsed >= 1

\* C20: a successful incrementSessionCredits lowers the user's credits by 1,
\* raises the creditsUsed of the user's active session by 1, changes no other
\* user and no other session or field, and returns the new balance and the
\* new creditsUsed.
IncrementEffect ==
  \A c \in ClerkIds :
    (CallIncrement(c) /\ lastResult'.ok)
      => LET a == FirstActive(sessions, c) IN
         /\ a # Null
         /\ credits' = [credits EXCEPT ![c] = credits[c] - 1]
         /\ sessions' = [sessions EXCEPT ![a].creditsUsed = sessions[a].creditsUsed + 1]
         /\ lastResult'.creditsRemaining = credits'[c]
         /\ lastResult'.sessionCreditsUsed = sessions'[a].creditsUsed

C20_IncrementByOne == [][IncrementEffect]_vars

\* C20 witness: an increment succeeded; its result names the active session
\* it charged and carries the figures now in the ledger
C20_Witness ==
  /\ lastResult.ok
  /\ lastResult.sid \in 1..Len(sessions)
  /\ sessions[lastResult.sid].isActive
  /\ lastResult.sessionCreditsUsed >= 1
  /\ sessions[lastResult.sid].creditsUsed = lastResult.sessionCreditsUsed
  /\ credits[sessions[lastResult.sid].userId] = lastResult.creditsRemaining


\* ------------------------------------------------------------------ C12
\* C12: a trigger that section 4.1 does not list for the current state
\* leaves the state unchanged, and nothing leaves Closed or Failed.
C12_UnlistedTriggersIgnored ==
  [][/\ <<fsmState, lastTrigger'>> \notin Listed => fsmState' = fsmState
     /\ fsmState \in Terminal => fsmState' = fsmState]_vars

\* start() was delivered to a session that had already closed
C12_Witness == fsmState = "Closed" /\ lastTrigger = "start"

\* ------------------------------------------------------------------ C13
\* the session waits for an event that only its environment can produce
Waiting ==
  \/ fsmState \in {"Idle", "RequestingPermission", "Connecting"}
  \/ fsmState = "Suspended" /\ ~online

\* C13 as stated: with a finite retry limit and finitely many triggers,
\* every run reaches Closed or Failed.
C13_AlwaysTerminates == <>(fsmState \in Terminal)

\* C13 as amended: with a finite retry limit and finitely many triggers,
\* every run ends in Closed or Failed or is left waiting for a trigger
\* (in Idle, RequestingPermission or Connecting, or in Suspended while the
\* network is unreachable); there is no infinite loop through Suspended.
C13_TerminatesUnlessWaiting == <>[](fsmState \in Terminal \/ Waiting)

\* the retry limit ended a session
C13_Witness == fsmState = "Failed" /\ fsmReason = "ConnectionLost"

\* ------------------------------------------------------------------ C14
\* C14: a session leaves Suspended on a successful reconnect only into
\* ConfiguringSession, with the configuration sent again and not yet
\* acknowledged, and Streaming is only entered with the configuration sent
\* and acknowledged on the open transport.
C14_ReconfiguredAfterReconnect ==
  [][/\ (fsmState = "Suspended" /\ fsmState' \notin {"Suspended", "Stopping", "Failed"})
          => fsmState' = "ConfiguringSession" /\ configSent' /\ ~acked'
     /\ fsmState' = "Streaming" => configSent' /\ acked'
     /\ fsmState = "Suspended" => fsmState' # "Streaming"]_vars

\* streaming again after a reconnect
C14_Witness == fsmState = "Streaming" /\ attempts > 0

\* ------------------------------------------------------------------ C15
\* C15: within one reconnection the delay of each attempt is at least the
\* delay of the attempt before it and at most MaxDelay; the attempt that
\* reaches MaxAttempts without a transport reports ConnectionLost, and no
\* attempt is made after it.
C15_BackoffBounded ==
  [][/\ attempts' = attempts + 1
          => /\ lastDelay <= lastDelay'
             /\ lastDelay' <= MaxDelay
             /\ attempts' <= MaxAttempts
             /\ (attempts' = MaxAttempts /\ fsmState' # "ConfiguringSession")
                   => fsmState' = "Failed" /\ fsmReason' = "ConnectionLost"
     /\ (fsmState = "Failed" /\ fsmReason = "ConnectionLost")
          => attempts' = attempts /\ lastDelay' = lastDelay]_vars

\* the last attempt, at the maximum delay, failed
C15_Witness ==
  /\ attempts = MaxAttempts
  /\ lastDelay = MaxDelay
  /\ fsmState = "Failed"
  /\ lastTrigger = "retries-exhausted"


\* ------------------------------------------------------------------ C16
\* C16: at most one response is playing, and a response has started to play
\* only if every response seen before it has finished playing or was
\* cancelled.
C16_NoInterleaving ==
  /\ Cardinality(playing) <= 1
  /\ \A i, j \in DOMAIN respOrder :
       (i < j /\ (played[respOrder[j]] # <<>> \/ respOrder[j] \in playing))
         => respOrder[i] \in (finished \cup cancelled)

\* the second response plays after the first was played to its end
C16_Witness ==
  /\ Len(respOrder) = 2
  /\ played[respOrder[1]] # <<>>
  /\ respOrder[1] \in finished
  /\ played[respOrder[2]] # <<>>

\* ------------------------------------------------------------------ C17
\* C17: the fragments of a response are played in increasing order of their
\* tags whatever the order of delivery, a response plays only after its
\* end-of-response marker was observed, and a response played to its end
\* has left no buffered fragment unplayed.
C17_TaggedOrder ==
  \A r \in Responses :
    /\ \A i, j \in DOMAIN played[r] : i < j => played[r][i] < played[r][j]
    /\ (played[r] # <<>> \/ r \in playing) => markerSeen[r]
    /\ r \in finished => \A k \in Frags : fate[r][k] # "buffered"

\* a fragment was delivered after one with a higher tag, as in [2,1,3], and
\* the response was played 1,2,3
C17_Witness ==
  \E r \in Responses : reordered[r] /\ played[r] = <<1, 2, 3>>

\* ------------------------------------------------------------------ C18
\* C18: a response that was playing when speech-started arrived is not
\* playing afterwards, holds no buffered fragment and plays nothing more.
C18_BargeInDiscards ==
  [][\A r \in bargedIn' :
       /\ r \notin playing'
       /\ buffer'[r] = <<>>
       /\ r \in bargedIn => played'[r] = played[r]]_vars

\* a response was interrupted after its first fragment: one buffered
\* fragment was discarded and one that arrived later was refused
C18_Witness ==
  \E r \in bargedIn :
    /\ played[r] # <<>>
    /\ \E k \in Frags : fate[r][k] = "discarded"
    /\ \E k \in Frags : fate[r][k] = "refused"


\* ------------------------------------------------------------------ C21
\* C21: no user's balance is ever negative.
C21_CreditsNonNegative == \A u \in Users : credits[u] >= 0

\* a heartbeat was refused on an empty balance
C21_Witness ==
  /\ lastResult.error = "Insufficient credits - session ended"
  /\ \E u \in Users : credits[u] = 0 /\ ActiveIds(sessions, u) # {}

\* ------------------------------------------------------------------ C22
\* C22: incrementSessionCredits for a user with an active session and no
\* credit fails with 'Insufficient credits - session ended', deducts nothing
\* and leaves that session ended (isActive false, endedAt set).
C22_ExhaustedSessionEnded ==
  [][\A c \in Users :
       (/\ credits[c] <= 0
        /\ FirstActive(sessions, c) # Null
        /\ CallIncrement(c))
       => /\ lastResult'.error = "Insufficient credits - session ended"
          /\ credits' = credits
          /\ ~sessions'[FirstActive(sessions, c)].isActive
          /\ sessions'[FirstActive(sessions, c)].endedAt # Null]_vars

\* ------------------------------------------------------------------ C23
\* C23: incrementSessionCredits for a user without an active session fails
\* with 'No active session found' and changes no balance and no session; a
\* balance only ever decreases for a user who has an active session.
C23_NoChargeWithoutSession ==
  [][/\ \A c \in Users :
          (FirstActive(sessions, c) = Null /\ CallIncrement(c))
          => /\ lastResult'.error = "No active session found"
             /\ credits' = credits
             /\ sessions' = sessions
     /\ \A u \in Users :
          credits'[u] < credits[u] => ActiveIds(sessions, u) # {}]_vars

\* the call was refused although every user has a session, all of them ended
C23_Witness ==
  /\ lastResult.error = "No active session found"
  /\ \A u \in Users : \E i \in 1..Len(sessions) : sessions[i].userId = u
  /\ \A i \in 1..Len(sessions) : ~sessions[i].isActive

\* ------------------------------------------------------------------ C24
\* C24: startSession for an unknown user fails with 'User not found', for a
\* user without credit with 'Insufficient credits'; it inserts no session
\* and changes no session and no balance.
C24_FailedStartChangesNothing ==
  [][\A c \in ClerkIds :
       ((FindUser(c) = NoUser \/ credits[c] <= 0) /\ CallStartSession(c))
       => /\ ~lastResult'.ok
          /\ lastResult'.error = IF FindUser(c) = NoUser THEN "User not found"
                                 ELSE "Insufficient credits"
          /\ sessions' = sessions
          /\ credits' = credits]_vars

\* a start was refused while the user's earlier session is still active
C24_Witness ==
  /\ lastResult.error = "Insufficient credits"
  /\ \E i \in 1..Len(sessions) :
       sessions[i].isActive /\ credits[sessions[i].userId] = 0

EndedAtSet ==
  \A i \in 1..Len(sessions) : (sessions[i].endedAt # Null) <=> ~sessions[i].isActive

EndedStaysEnded ==
  \A i \in 1..Len(sessions) :
    ~sessions[i].isActive
    => /\ ~sessions'[i].isActive
       /\ sessions'[i].creditsUsed = sessions[i].creditsUsed

\* C26: a session has endedAt set exactly when it is not active; an ended
\* session is never active again and its creditsUsed never changes.
C26_EndedIsFinal == [](EndedAtSet) /\ [][EndedStaysEnded]_vars

\* an ended session that was charged, followed by a charged active session
\* of the same user
C26_Witness ==
  \E i, j \in 1..Len(sessions) :
    /\ i < j
    /\ sessions[i].userId = sessions[j].userId
    /\ ~sessions[i].isActive /\ sessions[i].creditsUsed > 0
    /\ sessions[j].isActive /\ sessions[j].creditsUsed > 0


\* ------------------------------------------------------------------ C27
\* the hook issues no heartbeat any more and awaits nothing
HookStopped == pending = <<>> /\ \A t \in 1..Len(timers) : ~timers[t].live

\* C27: once the hook has stopped issuing heartbeats, for whatever reason,
\* no session that it started is active in the ledger.
C27_StoppedHookLeavesNoSession ==
  (clerkUser # NoUser /\ HookStopped) => ActiveIds(sessions, clerkUser) = {}

\* ------------------------------------------------------------------ C28
\* the interval callback is about to handle a heartbeat that was rejected
HeadIsFailedHeartbeat == HeadIsHeartbeat /\ ~Head(pending).ok

\* C28: handling a rejected heartbeat leaves no heartbeat timer live, stops
\* tracking (at once, or after the endSession that stopTracking awaits) and
\* raises nothing out of the callback.
C28_FailedHeartbeatStops ==
  [][(HeadIsFailedHeartbeat /\ ResumeHeartbeat)
     => /\ \A t \in 1..Len(timers') : ~timers'[t].live
        /\ \/ ~isTracking'
           \/ \E i \in 1..Len(pending') : pending'[i].kind = "stop"
        /\ thrown' = thrown]_vars

\* ------------------------------------------------------------------ C29
\* startTracking is about to handle a rejected startSession
HeadIsFailedStart ==
  pending # <<>> /\ Head(pending).kind = "start" /\ ~Head(pending).ok

C30_UnauthenticatedStartRefused ==
  clerkUser = NoUser
  => /\ sessions = <<>> /\ lastResult = NoResult /\ now = 1
     /\ pending = <<>> /\ timers = <<>> /\ intervalRef = Null
     /\ ~isTracking /\ sessionId = Null /\ sessionCreditsUsed = 0
     /\ thrown \in {"", "User not authenticated"}

\* startTracking was called without a user
C30_Witness == clerkUser = NoUser /\ thrown = "User not authenticated"


\* ------------------------------------------------------------------ C31
\* C31: whenever the hook awaits nothing and is not tracking, sessionId is
\* null and sessionCreditsUsed is 0.
C31_IdleHookIsReset ==
  (pending = <<>> /\ ~isTracking) => (sessionId = Null /\ sessionCreditsUsed = 0)

====
